---- MODULE Spec2Model ----
(***************************************************************************)
(* The DuckDuckGo text search of fkmcps (src/tools/search): one call of    *)
(* client.TextSearch on a client built by buildClient, with the upstream   *)
(* server and the caller's context as the environment.                     *)
(*                                                                         *)
(* A Go string is a sequence of chunks (TLA+ strings); the empty string is *)
(* << >>.  The chunks of a query are its bytes, so Len is Go's len.  A     *)
(* message is the concatenation of the chunks fmt.Sprintf puts together.   *)
(***************************************************************************)
EXTENDS Integers, Sequences, FiniteSets, TLC

VARIABLES
    c,          \* the client: [maxResults, region] (httpCli is the environment)
    ctx,        \* the caller's context: "nil", "active" or "canceled"
    input,      \* the *TextSearchRequest: [Query, TimeRange]
    pc,         \* where TextSearch stands: "init", "loop", "inflight", "pacing", "returned"
    results,    \* the accumulator of TextSearch
    reqBody,    \* the url.Values of the next request
    timer,      \* time-units left of the time.After channel
    ret,        \* what TextSearch returned: [resp, err]
    sent,       \* history: the encoded bodies httpCli.Do put on the wire
    pages,      \* history: what doTextHTMLSearch returned for each parsed page
    lastResp,   \* history: the last answer of httpCli.Do, [kind, status]
    conc,       \* the calls that run side by side on one client (SpecConc)
    unit        \* one function taken alone: [fn, arg, out, done]

vars == <<c, ctx, input, pc, results, reqBody, timer, ret, sent, pages, lastResp, conc, unit>>

----------------------------------------------------------------------------
(* Bounds of the model *)

MaxResultsCfg == 2      \* Config.MaxResults ranges over 1..MaxResultsCfg
MaxEntries == 2         \* a page holds at most this many div.web-result entries

(* Program constants *)

MaxQueryLength == 500
DefaultMaxResults == 10
PacingDelay == 3
StatusOK == 200
StatusTooManyRequests == 429
StatusForbidden == 403

----------------------------------------------------------------------------
(* Strings *)

Whitespace == {" ", "\t", "\n"}

RECURSIVE TrimLeft(_)
TrimLeft(s) ==
    IF s # << >> /\ Head(s) \in Whitespace THEN TrimLeft(Tail(s)) ELSE s

RECURSIVE TrimRight(_)
TrimRight(s) ==
    IF s # << >> /\ s[Len(s)] \in Whitespace
    THEN TrimRight(SubSeq(s, 1, Len(s) - 1))
    ELSE s

TrimSpace(s) == TrimRight(TrimLeft(s))

HasPrefix(s, prefix) ==
    Len(s) >= Len(prefix) /\ SubSeq(s, 1, Len(prefix)) = prefix

Contains(s, sub) ==
    \E i \in 0..(Len(s) - Len(sub)) : SubSeq(s, i + 1, i + Len(sub)) = sub

Repeat(ch, n) == [i \in 1..n |-> ch]

----------------------------------------------------------------------------
(* model.go: regions and time ranges *)

RegionWT == <<"wt-wt">>
RegionUS == <<"us-en">>
RegionUK == <<"uk-en">>
RegionDE == <<"de-de">>
RegionFR == <<"fr-fr">>
RegionJP == <<"jp-jp">>
RegionCN == <<"cn-zh">>
RegionRU == <<"ru-ru">>

TimeRangeDay == <<"d">>
TimeRangeWeek == <<"w">>
TimeRangeMonth == <<"m">>
TimeRangeYear == <<"y">>
TimeRangeAny == << >>

----------------------------------------------------------------------------
(* search.go: buildClient.  A nil config is NilConfig. *)

NilConfig == [isNil |-> TRUE, MaxResults |-> 0, Region |-> << >>]

(* the default taken for MaxResults = 0 only, a negative one kept *)
buildClientZeroOnly(config) ==
    LET cfg == IF config.isNil
               THEN [isNil |-> FALSE, MaxResults |-> 0, Region |-> << >>]
               ELSE config
        region == IF cfg.Region = << >> THEN RegionWT ELSE cfg.Region
        maxResults == IF cfg.MaxResults = 0 THEN DefaultMaxResults ELSE cfg.MaxResults
    IN  [maxResults |-> maxResults, region |-> region]

buildClient(config) ==
    LET cfg == IF config.isNil
               THEN [isNil |-> FALSE, MaxResults |-> 0, Region |-> << >>]
               ELSE config
        region == IF cfg.Region = << >> THEN RegionWT ELSE cfg.Region
        maxResults == IF cfg.MaxResults <= 0 THEN DefaultMaxResults ELSE cfg.MaxResults
    IN  [maxResults |-> maxResults, region |-> region]

----------------------------------------------------------------------------
(* url.Values: a function from keys to the list of their values.  Encode   *)
(* writes the pairs sorted by key; KeyOrder is that order on the keys of   *)
(* the model.                                                              *)

EmptyValues == [k \in {} |-> << >>]

ValuesSet(v, name, value) ==
    [k \in (DOMAIN v) \cup {name} |-> IF k = name THEN <<value>> ELSE v[k]]

KeyOrder == <<"", "b", "df", "kl", "nextParams", "q", "s", "vqd">>

RECURSIVE EncodeFrom(_, _)
EncodeFrom(v, i) ==
    IF i > Len(KeyOrder) THEN << >>
    ELSE (IF KeyOrder[i] \in DOMAIN v
          THEN [j \in 1..Len(v[KeyOrder[i]]) |-> <<KeyOrder[i], v[KeyOrder[i]][j]>>]
          ELSE << >>) \o EncodeFrom(v, i + 1)

Encode(v) == EncodeFrom(v, 1)

(* the region code written into kl without the test for RegionWT *)
buildTextHTMLRequestBodyKeepWT(t, region) ==
    [q  |-> <<t.Query>>,
     b  |-> << << >> >>,
     kl |-> <<region>>,
     df |-> IF t.TimeRange \in {TimeRangeDay, TimeRangeWeek, TimeRangeMonth, TimeRangeYear}
            THEN <<t.TimeRange>>
            ELSE <<TimeRangeAny>>]

(* text_search.go: buildTextHTMLRequestBody *)
buildTextHTMLRequestBody(t, region) ==
    [q  |-> <<t.Query>>,
     b  |-> << << >> >>,
     kl |-> IF region # RegionWT THEN <<region>> ELSE << << >> >>,
     df |-> IF t.TimeRange \in {TimeRangeDay, TimeRangeWeek, TimeRangeMonth, TimeRangeYear}
            THEN <<t.TimeRange>>
            ELSE <<TimeRangeAny>>]

----------------------------------------------------------------------------
(* A page of markup, as the selectors of parseTextHTMLSearchResponse see   *)
(* it: entries are the div.web-result elements under div#links, in         *)
(* document order; nav says whether a div.nav-link exists; forms are the   *)
(* form elements in document order, each the list of its input elements.   *)

NoAttr == [exists |-> FALSE, val |-> << >>]
Attr(v) == [exists |-> TRUE, val |-> v]

NoTitle == [exists |-> FALSE, href |-> NoAttr, text |-> << >>]
NoSnippet == [exists |-> FALSE, text |-> << >>]
TitleLink(href, text) == [exists |-> TRUE, href |-> href, text |-> text]
Snippet(text) == [exists |-> TRUE, text |-> text]

GoogleRedirectPrefix == <<"http://www.google.com/search?q=">>
AdDomainPrefix == <<"https://duckduckgo.com/y.js?ad_domain">>

URL1 == <<"https://example.com/", "1">>
URL2 == <<"https://example.com/", "2">>

EntryKinds ==
    { [title |-> TitleLink(Attr(URL1), <<" ", "T1", " ">>), snippet |-> Snippet(<<"S1", "\n">>)],
      [title |-> TitleLink(Attr(URL2), <<"T2">>), snippet |-> Snippet(<<"S2">>)],
      [title |-> TitleLink(Attr(URL1), <<" ">>), snippet |-> Snippet(<<"S1">>)],
      [title |-> TitleLink(Attr(URL2), <<"T2">>), snippet |-> Snippet(<< >>)],
      [title |-> TitleLink(Attr(URL2), <<"T2">>), snippet |-> NoSnippet],
      [title |-> NoTitle, snippet |-> Snippet(<<"S1">>)],
      [title |-> TitleLink(NoAttr, <<"T1">>), snippet |-> Snippet(<<"S1">>)],
      [title |-> TitleLink(Attr(<< >>), <<"T1">>), snippet |-> Snippet(<<"S1">>)],
      [title |-> TitleLink(Attr(GoogleRedirectPrefix \o <<"x">>), <<"T1">>), snippet |-> Snippet(<<"S1">>)],
      [title |-> TitleLink(Attr(AdDomainPrefix \o <<"=x">>), <<"T2">>), snippet |-> Snippet(<<"S2">>)] }

EntryLists == UNION { [1..n -> EntryKinds] : n \in 0..MaxEntries }

Input(type, name, value) == [type |-> type, name |-> name, value |-> value]

FormSearch == << Input("text", Attr("q"), Attr(<<"golang">>)),
                 Input("hidden", Attr("b"), Attr(<< >>)) >>
FormNext == << Input("submit", NoAttr, Attr(<<"Next">>)),
               Input("hidden", Attr("q"), Attr(<<"golang">>)),
               Input("hidden", Attr("s"), Attr(<<"30">>)) >>
FormNoValue == << Input("hidden", Attr("s"), NoAttr),
                  Input("hidden", NoAttr, Attr(<<"30">>)) >>
FormRepeat == << Input("hidden", Attr("s"), Attr(<<"30">>)),
                 Input("hidden", Attr("s"), Attr(<<"60">>)) >>

FormLists == { << >>, <<FormSearch, FormNext>>, <<FormNext, FormSearch>>,
               <<FormSearch, FormNoValue>>, <<FormRepeat>> }

Pages == [entries : EntryLists, nav : BOOLEAN, forms : FormLists]

(* doc.Find("form").Last(): the inputs of the last form, none if no form *)
LastFormOf(p) == IF p.forms = << >> THEN << >> ELSE p.forms[Len(p.forms)]

(* the Each over the entries without line 198: no href is remembered *)
RECURSIVE parseEntriesNoCache(_, _, _)
parseEntriesNoCache(entries, hrefCache, acc) ==
    IF entries = << >> THEN acc
    ELSE
        LET s == Head(entries)
            title == s.title
            href == IF title.href.exists THEN title.href.val ELSE << >>
            summary == s.snippet
            skip == \/ ~title.exists
                    \/ href = << >>
                    \/ href \in hrefCache
                    \/ HasPrefix(href, GoogleRedirectPrefix)
                    \/ HasPrefix(href, AdDomainPrefix)
                    \/ ~summary.exists
        IN  IF skip
            THEN parseEntriesNoCache(Tail(entries), hrefCache, acc)
            ELSE parseEntriesNoCache(Tail(entries), hrefCache,
                                     Append(acc, [Title |-> TrimSpace(title.text),
                                                  URL |-> href,
                                                  Summary |-> TrimSpace(summary.text)]))

(* text_search.go: parseTextHTMLSearchResponse, the Each over the entries *)
RECURSIVE parseEntries(_, _, _)
parseEntries(entries, hrefCache, acc) ==
    IF entries = << >> THEN acc
    ELSE
        LET s == Head(entries)
            title == s.title
            href == IF title.href.exists THEN title.href.val ELSE << >>
            summary == s.snippet
            skip == \/ ~title.exists
                    \/ href = << >>
                    \/ href \in hrefCache
                    \/ HasPrefix(href, GoogleRedirectPrefix)
                    \/ HasPrefix(href, AdDomainPrefix)
                    \/ ~summary.exists
        IN  IF skip
            THEN parseEntries(Tail(entries), hrefCache, acc)
            ELSE parseEntries(Tail(entries), hrefCache \cup {href},
                              Append(acc, [Title |-> TrimSpace(title.text),
                                           URL |-> href,
                                           Summary |-> TrimSpace(summary.text)]))

(* a hidden field with a name taken into the token without a value too *)
RECURSIVE hiddenFieldsNameOnly(_, _)
hiddenFieldsNameOnly(inputs, nextReqBody) ==
    IF inputs = << >> THEN nextReqBody
    ELSE
        LET s == Head(inputs)
        IN  IF s.type = "hidden" /\ s.name.exists
            THEN hiddenFieldsNameOnly(Tail(inputs),
                                      ValuesSet(nextReqBody, s.name.val, s.value.val))
            ELSE hiddenFieldsNameOnly(Tail(inputs), nextReqBody)

(* the Each over the hidden inputs of the last form *)
RECURSIVE hiddenFields(_, _)
hiddenFields(inputs, nextReqBody) ==
    IF inputs = << >> THEN nextReqBody
    ELSE
        LET s == Head(inputs)
        IN  IF s.type = "hidden" /\ s.name.exists /\ s.value.exists
            THEN hiddenFields(Tail(inputs), ValuesSet(nextReqBody, s.name.val, s.value.val))
            ELSE hiddenFields(Tail(inputs), nextReqBody)

(* the hidden fields read without looking for div.nav-link first *)
parseTextHTMLSearchResponseNoNav(respBody) ==
    LET parsed == parseEntries(respBody.entries, {}, << >>)
        lastForm == IF respBody.forms = << >> THEN << >>
                    ELSE respBody.forms[Len(respBody.forms)]
    IN  [results |-> parsed, nextReqBody |-> hiddenFields(lastForm, EmptyValues)]

parseTextHTMLSearchResponse(respBody) ==
    LET parsed == parseEntries(respBody.entries, {}, << >>)
        lastForm == IF respBody.forms = << >> THEN << >>
                    ELSE respBody.forms[Len(respBody.forms)]
    IN  IF ~respBody.nav
        THEN [results |-> parsed, nextReqBody |-> EmptyValues]
        ELSE [results |-> parsed, nextReqBody |-> hiddenFields(lastForm, EmptyValues)]

----------------------------------------------------------------------------
(* The messages of text_search.go *)

ErrQueryRequired ==
    <<"search ", "query is required", ", please provide a query string">>

ErrQueryTooLong ==
    <<"search query is ", "too long", " (max 500 characters), please shorten your query">>

ErrCreateRequest(err) == <<"failed to create search request: ">> \o err

ErrRequestFailed(err) ==
    <<"search request failed: ">> \o err \o <<". Please try again or rephrase your query">>

MsgNoResults ==
    <<"No results", " found for your query. Try using different keywords or broader search terms.">>

MsgFound(n) == <<"Found ", ToString(n), " results successfully.">>

ErrNetwork(err) == <<"network error, please check your connection: ">> \o err

ErrRateLimit ==
    <<"rate limit", " exceeded (", "status ", "429", "), please wait a moment and try again">>

ErrForbidden ==
    <<"access ", "forbidden", " (", "status ", "403",
      "), the search service may be blocking requests">>

ErrStatus(code) ==
    <<"search service returned ", "status ", ToString(code), ", please try again later">>

ErrRead(err) == <<"failed to read search results: ">> \o err

ErrParse(err) == <<"failed to parse search results: ", "failed to parse response: ">> \o err

(* A *TextSearchResponse; omitted fields are Go's zero values *)
ErrorResponse(msg) == [Message |-> << >>, Results |-> << >>, ErrorMessage |-> msg]
StatusResponse(msg, res) == [Message |-> msg, Results |-> res, ErrorMessage |-> << >>]

----------------------------------------------------------------------------
(* What httpCli.Do and the reading of the body can give *)

EmptyPage == [entries |-> << >>, nav |-> FALSE, forms |-> << >>]

Statuses == {200, 202, 403, 404, 429, 500}

Answer(kind, status, page) == [kind |-> kind, status |-> status, page |-> page]

(* the bodies that come with a status other than 200: none, or a page of *)
(* one entry with navigation and forms                                    *)
StatusBodies ==
    {EmptyPage,
     [entries |-> <<[title |-> TitleLink(Attr(URL1), <<"T1">>), snippet |-> Snippet(<<"S1">>)]>>,
      nav |-> TRUE, forms |-> <<FormSearch, FormNext>>]}

(* what the history keeps of a body: whether it has the navigation and, *)
(* if it has, its last form                                             *)
Seen(p) == [nav |-> p.nav, lastForm |-> IF p.nav THEN LastFormOf(p) ELSE << >>]

Responses ==
    {Answer("neterr", 0, EmptyPage)}
    \cup {Answer("status", st, p) : st \in Statuses \ {StatusOK}, p \in StatusBodies}
    \cup {Answer("readerr", StatusOK, EmptyPage), Answer("parseerr", StatusOK, EmptyPage)}
    \cup {Answer("page", StatusOK, p) : p \in Pages}

(* every 2xx status taken for a success and its body parsed *)
doTextHTMLSearchAny2xx(r) ==
    LET fail(err) == [results |-> << >>, nextReqBody |-> EmptyValues, err |-> err]
    IN  IF r.kind = "neterr" THEN fail(ErrNetwork(<<"transport">>))
        ELSE IF r.status = StatusTooManyRequests THEN fail(ErrRateLimit)
        ELSE IF r.status = StatusForbidden THEN fail(ErrForbidden)
        ELSE IF r.status \notin 200..299 THEN fail(ErrStatus(r.status))
        ELSE IF r.kind = "readerr" THEN fail(ErrRead(<<"unexpected EOF">>))
        ELSE IF r.kind = "parseerr" THEN fail(ErrParse(<<"html">>))
        ELSE LET out == parseTextHTMLSearchResponse(r.page)
             IN  [results |-> out.results, nextReqBody |-> out.nextReqBody, err |-> << >>]

doTextHTMLSearchNo429(r) ==
    LET fail(err) == [results |-> << >>, nextReqBody |-> EmptyValues, err |-> err]
    IN  IF r.kind = "neterr" THEN fail(ErrNetwork(<<"transport">>))
        ELSE IF r.status = StatusForbidden THEN fail(ErrForbidden)
        ELSE IF r.status # StatusOK THEN fail(ErrStatus(r.status))
        ELSE IF r.kind = "readerr" THEN fail(ErrRead(<<"unexpected EOF">>))
        ELSE IF r.kind = "parseerr" THEN fail(ErrParse(<<"html">>))
        ELSE LET out == parseTextHTMLSearchResponse(r.page)
             IN  [results |-> out.results, nextReqBody |-> out.nextReqBody, err |-> << >>]

doTextHTMLSearchNo403(r) ==
    LET fail(err) == [results |-> << >>, nextReqBody |-> EmptyValues, err |-> err]
    IN  IF r.kind = "neterr" THEN fail(ErrNetwork(<<"transport">>))
        ELSE IF r.status = StatusTooManyRequests THEN fail(ErrRateLimit)
        ELSE IF r.status # StatusOK THEN fail(ErrStatus(r.status))
        ELSE IF r.kind = "readerr" THEN fail(ErrRead(<<"unexpected EOF">>))
        ELSE IF r.kind = "parseerr" THEN fail(ErrParse(<<"html">>))
        ELSE LET out == parseTextHTMLSearchResponse(r.page)
             IN  [results |-> out.results, nextReqBody |-> out.nextReqBody, err |-> << >>]

doTextHTMLSearchOnly5xx(r) ==
    LET fail(err) == [results |-> << >>, nextReqBody |-> EmptyValues, err |-> err]
    IN  IF r.kind = "neterr" THEN fail(ErrNetwork(<<"transport">>))
        ELSE IF r.status = StatusTooManyRequests THEN fail(ErrRateLimit)
        ELSE IF r.status = StatusForbidden THEN fail(ErrForbidden)
        ELSE IF r.status >= 500 THEN fail(ErrStatus(r.status))
        ELSE IF r.kind = "readerr" THEN fail(ErrRead(<<"unexpected EOF">>))
        ELSE IF r.kind = "parseerr" THEN fail(ErrParse(<<"html">>))
        ELSE LET out == parseTextHTMLSearchResponse(r.page)
             IN  [results |-> out.results, nextReqBody |-> out.nextReqBody, err |-> << >>]

(* text_search.go: doTextHTMLSearch, given the answer of httpCli.Do: *)
(* [results, nextReqBody, err], err = << >> standing for nil          *)
doTextHTMLSearch(r) ==
    LET fail(err) == [results |-> << >>, nextReqBody |-> EmptyValues, err |-> err]
    IN  IF r.kind = "neterr" THEN fail(ErrNetwork(<<"transport">>))
        ELSE IF r.status = StatusTooManyRequests THEN fail(ErrRateLimit)
        ELSE IF r.status = StatusForbidden THEN fail(ErrForbidden)
        ELSE IF r.status # StatusOK THEN fail(ErrStatus(r.status))
        ELSE IF r.kind = "readerr" THEN fail(ErrRead(<<"unexpected EOF">>))
        ELSE IF r.kind = "parseerr" THEN fail(ErrParse(<<"html">>))
        ELSE LET out == parseTextHTMLSearchResponse(r.page)
             IN  [results |-> out.results, nextReqBody |-> out.nextReqBody, err |-> << >>]

----------------------------------------------------------------------------
(* text_search.go: TextSearch *)

QueryRequiredOff(t) == FALSE

QueryRequired(t) == t.Query = << >>

QueryTooLongGE(t) == Len(t.Query) >= MaxQueryLength

QueryTooLong(t) == Len(t.Query) > MaxQueryLength

failureKeepsResults(err, acc) ==
    [ErrorResponse(ErrRequestFailed(err)) EXCEPT !.Results = acc]

(* the response of a failed request (lines 48-52) *)
failure(err, acc) == ErrorResponse(ErrRequestFailed(err))

accumulateNoCut(acc, resultsTmp, maxResults) == acc \o resultsTmp

accumulateDedup(acc, resultsTmp, maxResults) ==
    LET seen == {acc[i].URL : i \in 1..Len(acc)}
        fresh(r) == r.URL \notin seen
        all == acc \o SelectSeq(resultsTmp, fresh)
    IN  IF Len(all) >= maxResults THEN SubSeq(all, 1, maxResults) ELSE all

(* the cut keeping the newest maxResults records instead of the oldest *)
accumulateKeepLast(acc, resultsTmp, maxResults) ==
    LET all == acc \o resultsTmp
    IN  IF Len(all) >= maxResults
        THEN SubSeq(all, Len(all) - maxResults + 1, Len(all))
        ELSE all

(* lines 58-64: append the page, cut at maxResults *)
accumulate(acc, resultsTmp, maxResults) ==
    LET all == acc \o resultsTmp
    IN  IF Len(all) >= maxResults THEN SubSeq(all, 1, maxResults) ELSE all

finishErrorOnEmpty(acc) ==
    IF Len(acc) = 0
    THEN ErrorResponse(MsgNoResults)
    ELSE StatusResponse(MsgFound(Len(acc)), acc)

pageEmptyNever(resultsTmp) == FALSE

(* line 54: the page gave no record *)
pageEmpty(resultsTmp) == Len(resultsTmp) = 0

nextBodyMerged(body, nextReqBody) ==
    [k \in (DOMAIN body) \cup (DOMAIN nextReqBody) |->
        IF k \in DOMAIN nextReqBody THEN nextReqBody[k] ELSE body[k]]

(* line 59: the body of the next request *)
nextBody(body, nextReqBody) == nextReqBody

(* the loop without the test of line 61 *)
limitReachedNever(all, maxResults) == FALSE

limitReachedGT(all, maxResults) == Len(all) > maxResults

(* line 61: the accumulator has reached the limit *)
limitReached(all, maxResults) == Len(all) >= maxResults

tokenEmptyNever(body) == FALSE

(* line 66: the token is empty *)
tokenEmpty(body) == Cardinality(DOMAIN body) = 0

(* lines 73-84: the response after the loop *)
finish(acc) ==
    IF Len(acc) = 0
    THEN StatusResponse(MsgNoResults, << >>)
    ELSE StatusResponse(MsgFound(Len(acc)), acc)

ReturnErr(resp) ==
    /\ pc' = "returned"
    /\ ret' = [resp |-> resp, err |-> IF resp.ErrorMessage # << >> THEN "error" ELSE "nil"]

Return(resp) ==
    /\ pc' = "returned"
    /\ ret' = [resp |-> resp, err |-> "nil"]

NotReturned == [resp |-> ErrorResponse(<< >>), err |-> "pending"]

(* lines 17-34 *)
Validate ==
    /\ pc = "init"
    /\ IF QueryRequired(input)
       THEN Return(ErrorResponse(ErrQueryRequired)) /\ UNCHANGED <<results, reqBody>>
       ELSE IF QueryTooLong(input)
       THEN Return(ErrorResponse(ErrQueryTooLong)) /\ UNCHANGED <<results, reqBody>>
       ELSE /\ results' = << >>
            /\ reqBody' = buildTextHTMLRequestBody(input, c.region)
            /\ pc' = "loop"
            /\ UNCHANGED ret
    /\ UNCHANGED <<unit, conc, c, ctx, input, timer, sent, pages, lastResp>>

SendRequestTwice ==
    /\ pc = "loop"
    /\ \/ /\ ctx = "nil"
          /\ Return(ErrorResponse(ErrCreateRequest(<<"net/http: nil Context">>)))
          /\ UNCHANGED <<sent, lastResp>>
       \/ /\ ctx = "canceled"
          /\ Return(failure(ErrNetwork(<<"context canceled">>), results))
          /\ lastResp' = [kind |-> "neterr", status |-> 0, seen |-> Seen(EmptyPage)]
          /\ UNCHANGED sent
       \/ /\ ctx = "active"
          /\ sent' = sent \o <<Encode(reqBody), Encode(reqBody)>>
          /\ pc' = "inflight"
          /\ UNCHANGED <<ret, lastResp>>
    /\ UNCHANGED <<unit, conc, c, ctx, input, results, reqBody, timer, pages>>

(* lines 38-47 and 131: the request is created and handed to httpCli.Do. *)
(* A nil context fails the creation; with a context already canceled Do  *)
(* returns its error without writing to the network.                     *)
SendRequest ==
    /\ pc = "loop"
    /\ \/ /\ ctx = "nil"
          /\ Return(ErrorResponse(ErrCreateRequest(<<"net/http: nil Context">>)))
          /\ UNCHANGED <<sent, lastResp>>
       \/ /\ ctx = "canceled"
          /\ Return(failure(ErrNetwork(<<"context canceled">>), results))
          /\ lastResp' = [kind |-> "neterr", status |-> 0, seen |-> Seen(EmptyPage)]
          /\ UNCHANGED sent
       \/ /\ ctx = "active"
          /\ sent' = Append(sent, Encode(reqBody))
          /\ pc' = "inflight"
          /\ UNCHANGED <<ret, lastResp>>
    /\ UNCHANGED <<unit, conc, c, ctx, input, results, reqBody, timer, pages>>

(* What line 47 can get: an answer of httpCli.Do with what doTextHTMLSearch *)
(* makes of it.  TextSearch reads nothing else of the answer, so answers    *)
(* that agree here are one case.                                            *)
Calls ==
    {[kind |-> r.kind, status |-> r.status, seen |-> Seen(r.page), out |-> doTextHTMLSearch(r)] :
        r \in Responses}

DoReturnsRetry(call) ==
    /\ pc = "inflight"
    /\ lastResp' = [kind |-> call.kind, status |-> call.status, seen |-> call.seen]
    /\ LET out == call.out
           acc == accumulate(results, out.results, c.maxResults)
       IN  IF out.err # << >>
           THEN /\ IF call.status = StatusTooManyRequests /\ Len(sent) = 1
                   THEN pc' = "loop" /\ UNCHANGED ret
                   ELSE Return(failure(out.err, results))
                /\ UNCHANGED <<results, reqBody, timer, pages>>
           ELSE /\ pages' = Append(pages, [results |-> out.results,
                                           nextReqBody |-> out.nextReqBody,
                                           seen |-> call.seen])
                /\ IF pageEmpty(out.results)
                   THEN /\ Return(finish(results))
                        /\ UNCHANGED <<results, reqBody, timer>>
                   ELSE /\ results' = acc
                        /\ reqBody' = nextBody(reqBody, out.nextReqBody)
                        /\ IF limitReached(results \o out.results, c.maxResults)
                              \/ tokenEmpty(nextBody(reqBody, out.nextReqBody))
                           THEN Return(finish(acc)) /\ UNCHANGED timer
                           ELSE /\ pc' = "pacing"
                                /\ timer' = PacingDelay
                                /\ UNCHANGED ret
    /\ UNCHANGED <<unit, conc, c, ctx, input, sent>>

(* lines 47-70: doTextHTMLSearch returns; the loop decides *)
DoReturns(call) ==
    /\ pc = "inflight"
    /\ lastResp' = [kind |-> call.kind, status |-> call.status, seen |-> call.seen]
    /\ LET out == call.out
           acc == accumulate(results, out.results, c.maxResults)
       IN  IF out.err # << >>
           THEN /\ Return(failure(out.err, results))
                /\ UNCHANGED <<results, reqBody, timer, pages>>
           ELSE /\ pages' = Append(pages, [results |-> out.results,
                                           nextReqBody |-> out.nextReqBody,
                                           seen |-> call.seen])
                /\ IF pageEmpty(out.results)
                   THEN /\ Return(finish(results))
                        /\ UNCHANGED <<results, reqBody, timer>>
                   ELSE /\ results' = acc
                        /\ reqBody' = nextBody(reqBody, out.nextReqBody)
                        /\ IF limitReached(results \o out.results, c.maxResults)
                              \/ tokenEmpty(nextBody(reqBody, out.nextReqBody))
                           THEN Return(finish(acc)) /\ UNCHANGED timer
                           ELSE /\ pc' = "pacing"
                                /\ timer' = PacingDelay
                                /\ UNCHANGED ret
    /\ UNCHANGED <<unit, conc, c, ctx, input, sent>>

(* line 70: a time-unit of the delay passes *)
Tick ==
    /\ pc = "pacing"
    /\ timer > 0
    /\ timer' = timer - 1
    /\ UNCHANGED <<unit, conc, c, ctx, input, pc, results, reqBody, ret, sent, pages, lastResp>>

TimerFiresEarly ==
    /\ pc = "pacing"
    /\ pc' = "loop"
    /\ UNCHANGED <<unit, conc, c, ctx, input, results, reqBody, timer, ret, sent, pages, lastResp>>

(* line 70: the channel of time.After delivers and the loop goes round *)
TimerFires ==
    /\ pc = "pacing"
    /\ timer = 0
    /\ pc' = "loop"
    /\ UNCHANGED <<unit, conc, c, ctx, input, results, reqBody, timer, ret, sent, pages, lastResp>>

(* The caller cancels the context, or its deadline passes.  A request in   *)
(* flight then races with its answer: Do may still return what arrived,   *)
(* so every answer stays possible.                                        *)
Cancel ==
    /\ ctx = "active"
    /\ pc # "returned"
    /\ ctx' = "canceled"
    /\ UNCHANGED <<unit, conc, c, input, pc, results, reqBody, timer, ret, sent, pages, lastResp>>

----------------------------------------------------------------------------
(* The calls the model makes *)

Configs == [isNil : {FALSE}, MaxResults : 1..MaxResultsCfg, Region : {<< >>, RegionUS}]

QueryLens == {0, 1, 499, 500, 501, 502}

Requests == [Query : {Repeat("a", n) : n \in QueryLens},
             TimeRange : {TimeRangeAny, TimeRangeWeek}]

Init ==
    /\ c \in {buildClient(cfg) : cfg \in Configs}
    /\ ctx \in {"nil", "active", "canceled"}
    /\ input \in Requests
    /\ pc = "init"
    /\ results = << >>
    /\ reqBody = EmptyValues
    /\ timer = 0
    /\ ret = NotReturned
    /\ sent = << >>
    /\ pages = << >>
    /\ lastResp = [kind |-> "none", status |-> 0, seen |-> Seen(EmptyPage)]
    /\ conc = << >>
    /\ unit = << >>

Next ==
    \/ Validate
    \/ SendRequest
    \/ \E call \in Calls : DoReturns(call)
    \/ Tick
    \/ TimerFires
    \/ Cancel

Spec == Init /\ [][Next]_vars

(* The call as it is scheduled: the goroutine of the call keeps running    *)
(* (lines 17-47), the clock of time.After advances and its channel         *)
(* delivers (line 70), and httpCli.Do returns, with an answer or with an   *)
(* error, at the latest when the client's Timeout has passed (search.go    *)
(* 48-60).  Nothing obliges the caller to cancel.                          *)
SpecLive ==
    /\ Spec
    /\ WF_vars(Validate)
    /\ WF_vars(SendRequest)
    /\ WF_vars(\E call \in Calls : DoReturns(call))
    /\ WF_vars(Tick)
    /\ WF_vars(TimerFires)

----------------------------------------------------------------------------
(* Calls of TextSearch side by side on one client.  Each call is a         *)
(* goroutine with the locals of TextSearch: conc[i] holds input, pc,       *)
(* results, reqBody and ret of call i, with the answers it got and the     *)
(* bodies it sent as history.  The contexts stay active and the delay is   *)
(* one step here; the client c is the one shared value.                    *)

Invocations == {"A", "B"}

(* one accumulator for every call, as a field of the client would be *)
accSlotShared(i) == "A"

(* line 31: the accumulator call i works on is its own local *)
accSlot(i) == i

NewCall(in) ==
    [input |-> in, pc |-> "init", results |-> << >>, reqBody |-> EmptyValues,
     ret |-> NotReturned, answers |-> << >>, sent |-> << >>]

ConcRequests == [Query : {Repeat("a", n) : n \in {0, 1, 2}}, TimeRange : {TimeRangeAny}]

ConcEntry(url, title, summary) ==
    [title |-> TitleLink(Attr(url), title), snippet |-> Snippet(summary)]

ConcPages ==
    { EmptyPage,
      [entries |-> <<ConcEntry(URL1, <<"T1">>, <<"S1">>)>>,
       nav |-> TRUE, forms |-> <<FormSearch, FormNext>>],
      [entries |-> <<ConcEntry(URL2, <<"T2">>, <<"S2">>)>>,
       nav |-> TRUE, forms |-> <<FormRepeat>>],
      [entries |-> <<ConcEntry(URL1, <<"T1">>, <<"S1">>), ConcEntry(URL2, <<"T2">>, <<"S2">>)>>,
       nav |-> FALSE, forms |-> << >>] }

ConcResponses ==
    {Answer("neterr", 0, EmptyPage), Answer("status", StatusTooManyRequests, EmptyPage)}
    \cup {Answer("page", StatusOK, p) : p \in ConcPages}

ConcCalls ==
    {[kind |-> r.kind, status |-> r.status, out |-> doTextHTMLSearch(r)] : r \in ConcResponses}

callVars == <<unit, ctx, input, pc, results, reqBody, timer, ret, sent, pages, lastResp>>

(* lines 17-34 in call i *)
CValidate(i) ==
    /\ conc[i].pc = "init"
    /\ IF QueryRequired(conc[i].input)
       THEN conc' = [conc EXCEPT ![i].pc = "returned",
                                 ![i].ret = [resp |-> ErrorResponse(ErrQueryRequired), err |-> "nil"]]
       ELSE IF QueryTooLong(conc[i].input)
       THEN conc' = [conc EXCEPT ![i].pc = "returned",
                                 ![i].ret = [resp |-> ErrorResponse(ErrQueryTooLong), err |-> "nil"]]
       ELSE conc' = [conc EXCEPT ![accSlot(i)].results = << >>,
                                 ![i].reqBody = buildTextHTMLRequestBody(conc[i].input, c.region),
                                 ![i].pc = "loop"]
    /\ UNCHANGED <<c, callVars>>

(* lines 38-47 in call i *)
CSendRequest(i) ==
    /\ conc[i].pc = "loop"
    /\ conc' = [conc EXCEPT ![i].sent = Append(@, Encode(conc[i].reqBody)),
                            ![i].pc = "inflight"]
    /\ UNCHANGED <<c, callVars>>

(* lines 47-70 in call i: doTextHTMLSearch returns to it *)
CDoReturns(i, call) ==
    /\ conc[i].pc = "inflight"
    /\ LET out == call.out
           old == conc[accSlot(i)].results
           acc == accumulate(old, out.results, c.maxResults)
           got == [conc EXCEPT ![i].answers = Append(@, call)]
           done(resp) == [got EXCEPT ![i].pc = "returned",
                                     ![i].ret = [resp |-> resp, err |-> "nil"]]
       IN  IF out.err # << >>
           THEN conc' = done(failure(out.err, old))
           ELSE IF pageEmpty(out.results)
           THEN conc' = done(finish(old))
           ELSE LET kept == [got EXCEPT ![accSlot(i)].results = acc,
                                        ![i].reqBody = nextBody(conc[i].reqBody, out.nextReqBody)]
                IN  IF limitReached(old \o out.results, c.maxResults)
                       \/ tokenEmpty(nextBody(conc[i].reqBody, out.nextReqBody))
                    THEN conc' = [kept EXCEPT ![i].pc = "returned",
                                              ![i].ret = [resp |-> finish(acc), err |-> "nil"]]
                    ELSE conc' = [kept EXCEPT ![i].pc = "pacing"]
    /\ UNCHANGED <<c, callVars>>

(* line 70 in call i: the delay has passed *)
CTimerFires(i) ==
    /\ conc[i].pc = "pacing"
    /\ conc' = [conc EXCEPT ![i].pc = "loop"]
    /\ UNCHANGED <<c, callVars>>

InitConc ==
    /\ c \in {buildClient(cfg) : cfg \in Configs}
    /\ conc \in [Invocations -> {NewCall(in) : in \in ConcRequests}]
    /\ ctx = "active"
    /\ input = [Query |-> << >>, TimeRange |-> TimeRangeAny]
    /\ pc = "idle"
    /\ results = << >>
    /\ reqBody = EmptyValues
    /\ timer = 0
    /\ ret = NotReturned
    /\ sent = << >>
    /\ pages = << >>
    /\ lastResp = [kind |-> "none", status |-> 0, seen |-> Seen(EmptyPage)]
    /\ unit = << >>

NextConc ==
    \E i \in Invocations :
        \/ CValidate(i)
        \/ CSendRequest(i)
        \/ \E call \in ConcCalls : CDoReturns(i, call)
        \/ CTimerFires(i)

SpecConc == InitConc /\ [][NextConc]_vars

----------------------------------------------------------------------------
(* The functions of the package taken alone: unit holds the function's     *)
(* name, its argument, and its result once it has run.  No call of         *)
(* TextSearch is under way in these specifications.                        *)

NewUnit(fn, arg) == [fn |-> fn, arg |-> arg, out |-> << >>, done |-> FALSE]

restVars == <<c, conc, ctx, input, pc, results, reqBody, timer, ret, sent, pages, lastResp>>

IdleCall ==
    /\ c = buildClient(NilConfig)
    /\ conc = << >>
    /\ ctx = "active"
    /\ input = [Query |-> << >>, TimeRange |-> TimeRangeAny]
    /\ pc = "idle"
    /\ results = << >>
    /\ reqBody = EmptyValues
    /\ timer = 0
    /\ ret = NotReturned
    /\ sent = << >>
    /\ pages = << >>
    /\ lastResp = [kind |-> "none", status |-> 0, seen |-> Seen(EmptyPage)]

(* text_search.go 155: doTextHTMLSearch hands the body it read to the parser *)
InitParse ==
    /\ IdleCall
    /\ unit \in {NewUnit("parse", p) : p \in Pages}

ParsePage ==
    /\ unit.fn = "parse"
    /\ ~unit.done
    /\ unit' = [unit EXCEPT !.out = parseTextHTMLSearchResponse(unit.arg), !.done = TRUE]
    /\ UNCHANGED restVars

NextParse == ParsePage

SpecParse == InitParse /\ [][NextParse]_vars

(* text_search.go 32: buildTextHTMLRequestBody taken alone.  TimeRange is  *)
(* a string type, so a request can carry a text that is none of the five   *)
(* declared ranges.                                                        *)
BodyQueries == {<<"test", " ", "query">>, <<"golang">>, <<" ", "go", " ">>}

BodyTimeRanges ==
    {TimeRangeAny, TimeRangeDay, TimeRangeWeek, TimeRangeMonth, TimeRangeYear, <<"x">>}

BodyRegions ==
    {RegionWT, RegionUS, RegionUK, RegionDE, RegionFR, RegionJP, RegionCN, RegionRU}

InitBody ==
    /\ IdleCall
    /\ unit \in {NewUnit("body", [t |-> [Query |-> q, TimeRange |-> tr], region |-> r]) :
                    q \in BodyQueries, tr \in BodyTimeRanges, r \in BodyRegions}

BuildBody ==
    /\ unit.fn = "body"
    /\ ~unit.done
    /\ unit' = [unit EXCEPT !.out = buildTextHTMLRequestBody(unit.arg.t, unit.arg.region),
                            !.done = TRUE]
    /\ UNCHANGED restVars

NextBody == BuildBody

SpecBody == InitBody /\ [][NextBody]_vars

(* search.go 29-31: NewSearch, that is buildClient, taken alone.  Region is *)
(* a string type, so a config can carry a code that is none of the eight.  *)
ClientConfigs ==
    {NilConfig} \cup
    [isNil : {FALSE},
     MaxResults : {-2, -1, 0, 1, 2, 10, 11},
     Region : {<< >>, <<"xx-xx">>} \cup BodyRegions]

InitClient ==
    /\ IdleCall
    /\ unit \in {NewUnit("client", cfg) : cfg \in ClientConfigs}

BuildClient ==
    /\ unit.fn = "client"
    /\ ~unit.done
    /\ unit' = [unit EXCEPT !.out = buildClient(unit.arg), !.done = TRUE]
    /\ UNCHANGED restVars

NextClient == BuildClient

SpecClient == InitClient /\ [][NextClient]_vars

----------------------------------------------------------------------------
(* Properties *)

Returned == pc = "returned"

Failed == lastResp.kind \in {"neterr", "status", "readerr", "parseerr"}

ErrorOutcome ==
    /\ ret.resp.ErrorMessage # << >>
    /\ ret.resp.Message = << >>
    /\ ret.resp.Results = << >>

SuccessOutcome ==
    /\ ret.resp.Message # << >>
    /\ ret.resp.ErrorMessage = << >>

RECURSIVE Flatten(_)
Flatten(ps) == IF ps = << >> THEN << >> ELSE Head(ps).results \o Flatten(Tail(ps))

\* C1: every outcome TextSearch returns holds at most maxResults results,
\* whatever pages, tokens and statuses the upstream answered with.
C1_ResultsWithinLimit ==
    Returned => Len(ret.resp.Results) <= c.maxResults

\* C1 witness: the pages together held more records than maxResults and the
\* outcome holds exactly maxResults of them.
C1_Witness ==
    /\ Returned
    /\ Len(Flatten(pages)) > c.maxResults
    /\ Len(ret.resp.Results) = c.maxResults

\* C2: when a request of the call fails (transport, 429, 403, other status,
\* body read, parse), the outcome is an error outcome without results, also
\* after earlier pages gave results.
C2_FailureDiscardsResults ==
    (Returned /\ Failed) => (ErrorOutcome /\ ret.resp.Results = << >>)

\* C2 witness: a continuation request failed after a page had given results.
C2_Witness ==
    /\ Returned
    /\ Failed
    /\ Len(sent) >= 2
    /\ Len(results) > 0
    /\ ErrorOutcome

\* C3: every outcome is either a success outcome (status message, no error
\* message) or an error outcome (error message, no status message, no
\* results), never both, and the Go error is nil on every path.
C3_OutcomeShape ==
    Returned =>
        /\ ret.err = "nil"
        /\ SuccessOutcome \/ ErrorOutcome
        /\ ~(SuccessOutcome /\ ErrorOutcome)

\* C3 witness: the request-creation path returned its error outcome.
C3_Witness ==
    /\ Returned
    /\ ret.err = "nil"
    /\ ret.resp.ErrorMessage = ErrCreateRequest(<<"net/http: nil Context">>)

\* C4: every result of a returned outcome has a non-empty title and a
\* non-empty url.
C4_TitleAndURLNonEmpty ==
    Returned =>
        \A i \in 1..Len(ret.resp.Results) :
            /\ ret.resp.Results[i].Title # << >>
            /\ ret.resp.Results[i].URL # << >>

\* C5: when the context is canceled while TextSearch waits in the pacing
\* delay, its next step is to return; it does not wait on.
C5_CancelEndsPacing ==
    [][(pc = "pacing" /\ ctx = "canceled") => pc' = "returned"]_vars

\* C6: an empty query ends the call in validation with an error outcome that
\* says "query is required", without results and without any request sent.
C6_EmptyQueryRejected ==
    (input.Query = << >> /\ pc # "init") =>
        /\ Returned
        /\ ErrorOutcome
        /\ Contains(ret.resp.ErrorMessage, <<"query is required">>)
        /\ ret.resp.Results = << >>
        /\ sent = << >>
        /\ lastResp.kind = "none"

\* C6 witness: a call with the empty query has returned.
C6_Witness ==
    /\ input.Query = << >>
    /\ Returned
    /\ Contains(ret.resp.ErrorMessage, <<"query is required">>)

\* C7: a query is rejected as too long exactly when it is longer than 500
\* bytes: then the outcome is an error outcome saying "too long", without
\* results and without a request; a non-empty query of at most 500 bytes
\* passes validation and goes on to the first request.
C7_TooLongExactlyOver500 ==
    pc # "init" =>
        IF Len(input.Query) > 500
        THEN /\ Returned
             /\ ErrorOutcome
             /\ Contains(ret.resp.ErrorMessage, <<"too long">>)
             /\ ret.resp.Results = << >>
             /\ sent = << >>
        ELSE input.Query # << >> =>
             /\ ~Contains(ret.resp.ErrorMessage, <<"too long">>)
             /\ ~Contains(ret.resp.ErrorMessage, <<"query is required">>)
             /\ pc = "loop" \/ Len(sent) >= 1 \/ ctx # "active"

\* C7 witness: a query of 501 bytes was rejected, and (C7_WitnessPass) one of
\* 500 bytes had its first request sent.
C7_Witness ==
    /\ Len(input.Query) = 501
    /\ Returned
    /\ Contains(ret.resp.ErrorMessage, <<"too long">>)

C7_WitnessPass ==
    /\ Len(input.Query) = 500
    /\ Len(sent) >= 1

\* C8: when the first page gives no parsed entry, the outcome is a success
\* outcome with the "no results" message, no results and no error message,
\* and no second request is sent.
C8_EmptyFirstPage ==
    (Len(pages) >= 1 /\ pages[1].results = << >>) =>
        /\ Returned
        /\ ret.resp.Message = MsgNoResults
        /\ Contains(ret.resp.Message, <<"No results">>)
        /\ ret.resp.Results = << >>
        /\ ret.resp.ErrorMessage = << >>
        /\ ret.err = "nil"
        /\ Len(sent) = 1

\* C8 witness: the empty first page offered a continuation token and the
\* call still returned after its one request.
C8_Witness ==
    /\ Returned
    /\ Len(pages) = 1
    /\ pages[1].results = << >>
    /\ pages[1].nextReqBody # EmptyValues
    /\ ret.resp.Message = MsgNoResults

\* C9: a response with status 429 ends the call with an error outcome that
\* says "rate limit", without results.
C9_RateLimited ==
    lastResp.status = 429 =>
        /\ Returned
        /\ ErrorOutcome
        /\ Contains(ret.resp.ErrorMessage, <<"rate limit">>)
        /\ ret.resp.Results = << >>

\* C9 witness: the first request was answered with 429.
C9_Witness ==
    /\ Returned
    /\ lastResp.status = 429
    /\ Len(sent) = 1
    /\ Contains(ret.resp.ErrorMessage, <<"rate limit">>)

\* C10: a response with status 403 ends the call with an error outcome that
\* says "forbidden", without results.
C10_Blocked ==
    lastResp.status = 403 =>
        /\ Returned
        /\ ErrorOutcome
        /\ Contains(ret.resp.ErrorMessage, <<"forbidden">>)
        /\ ret.resp.Results = << >>

\* C10 witness: a request was answered with 403.
C10_Witness ==
    /\ Returned
    /\ lastResp.status = 403
    /\ Contains(ret.resp.ErrorMessage, <<"forbidden">>)

\* C11: a response whose status is outside 2xx and is neither 429 nor 403
\* ends the call with an error outcome whose message holds "status <code>".
C11_UpstreamError ==
    (lastResp.kind = "status" /\ lastResp.status \notin 200..299
                              /\ lastResp.status \notin {429, 403}) =>
        /\ Returned
        /\ ErrorOutcome
        /\ Contains(ret.resp.ErrorMessage, <<"status ", ToString(lastResp.status)>>)

\* C11 witness: a request was answered with 500 and the outcome says so.
C11_Witness ==
    /\ Returned
    /\ lastResp.status = 500
    /\ Contains(ret.resp.ErrorMessage, <<"status ", "500">>)

Take(s, n) == SubSeq(s, 1, IF Len(s) < n THEN Len(s) ELSE n)

LastPage == pages[Len(pages)]

\* C12: when a parsed page comes with an empty continuation token, the call
\* has returned a success outcome with what was accumulated, and no request
\* follows that page.
C12_EmptyTokenEnds ==
    (pages # << >> /\ DOMAIN LastPage.nextReqBody = {}) =>
        /\ Returned
        /\ SuccessOutcome
        /\ ret.err = "nil"
        /\ ret.resp.Results = Take(Flatten(pages), c.maxResults)
        /\ Len(sent) = Len(pages)

\* C12 witness: the page gave records, the limit was not reached, and the
\* empty token alone ended the loop.
C12_Witness ==
    /\ Returned
    /\ pages # << >>
    /\ DOMAIN LastPage.nextReqBody = {}
    /\ LastPage.results # << >>
    /\ Len(Flatten(pages)) < c.maxResults
    /\ ret.resp.Results = Flatten(pages)

CountURL(s, u) == Cardinality({i \in 1..Len(s) : s[i].URL = u})

\* C13: records are not de-duplicated across pages: when the pages together
\* stay within the limit, a url occurs in the returned results as often as
\* it occurs in the pages, so a url two pages share is returned twice.
C13_NoCrossPageDedup ==
    (Returned /\ SuccessOutcome /\ Len(Flatten(pages)) <= c.maxResults) =>
        \A i \in 1..Len(Flatten(pages)) :
            CountURL(ret.resp.Results, Flatten(pages)[i].URL)
                = CountURL(Flatten(pages), Flatten(pages)[i].URL)

\* C13 witness: two pages gave a record with the same url and the outcome
\* holds both.
C13_Witness ==
    /\ Returned
    /\ Len(pages) = 2
    /\ Len(pages[1].results) = 1
    /\ Len(pages[2].results) = 1
    /\ pages[1].results[1].URL = pages[2].results[1].URL
    /\ CountURL(ret.resp.Results, pages[1].results[1].URL) = 2

\* C14: no failure is retried: a failed request leaves the call returned,
\* a returned call takes no further step, and a second or later request is
\* sent only after a parsed page that gave a non-empty continuation token.
C14_NoRetry ==
    [][ /\ pc # "returned"
        /\ (Failed' => pc' = "returned")
        /\ (Len(sent') > Len(sent) /\ sent # << >>) =>
               /\ lastResp.kind = "page"
               /\ pages # << >>
               /\ Len(pages) = Len(sent)
               /\ DOMAIN LastPage.nextReqBody # {}
      ]_vars

\* C14 witness: a continuation request failed on reading the body and the
\* call returned with two requests sent.
C14_Witness ==
    /\ Returned
    /\ lastResp.kind = "readerr"
    /\ Len(sent) = 2
    /\ Len(pages) = 1

\* C15: the requests of a call go out one at a time: a request is sent only
\* while none is in flight and every earlier one has been answered and
\* parsed, so at most one request is ever outstanding.
C15_Sequential ==
    [][ /\ Len(sent') - Len(pages') \in {0, 1}
        /\ (pc' = "inflight" => Len(sent') = Len(pages') + 1)
        /\ Len(sent') > Len(sent) =>
               /\ Len(sent') = Len(sent) + 1
               /\ pc = "loop"
               /\ pc' = "inflight"
               /\ Len(pages) = Len(sent)
      ]_vars

\* C15 witness: the second request is in flight after the first was parsed.
C15_Witness ==
    /\ pc = "inflight"
    /\ Len(sent) = 2
    /\ Len(pages) = 1

\* C17: when the records of the pages reach or pass maxResults, the call has
\* returned exactly the first maxResults of them and sent no request after
\* that page, also when the page came with a non-empty continuation token.
C17_LimitEnds ==
    (pages # << >> /\ Len(Flatten(pages)) >= c.maxResults) =>
        /\ Returned
        /\ SuccessOutcome
        /\ Len(ret.resp.Results) = c.maxResults
        /\ ret.resp.Results = Take(Flatten(pages), c.maxResults)
        /\ Len(sent) = Len(pages)

\* C17 witness: the last page came with a non-empty token and took the
\* accumulator past the limit; the outcome was cut to maxResults.
C17_Witness ==
    /\ Returned
    /\ pages # << >>
    /\ DOMAIN LastPage.nextReqBody # {}
    /\ Len(Flatten(pages)) > c.maxResults
    /\ Len(ret.resp.Results) = c.maxResults
    /\ Len(sent) = Len(pages)

\* C17 witness of the boundary: the accumulator reached maxResults exactly.
C17_WitnessExact ==
    /\ Returned
    /\ pages # << >>
    /\ DOMAIN LastPage.nextReqBody # {}
    /\ Len(Flatten(pages)) = c.maxResults

\* C18: when a page after the first gives no record, the call has returned
\* a success outcome holding the records of the earlier pages, and no request
\* follows, also when that page came with a non-empty continuation token.
C18_EmptyContinuationPage ==
    (Len(pages) >= 2 /\ LastPage.results = << >>) =>
        /\ Returned
        /\ SuccessOutcome
        /\ ret.resp.Results # << >>
        /\ ret.resp.Results = Flatten(SubSeq(pages, 1, Len(pages) - 1))
        /\ ret.resp.Message = MsgFound(Len(ret.resp.Results))
        /\ Len(sent) = Len(pages)

\* C18 witness: the second page gave no record but a non-empty token, and
\* the call returned the first page's records.
C18_Witness ==
    /\ Returned
    /\ Len(pages) = 2
    /\ LastPage.results = << >>
    /\ DOMAIN LastPage.nextReqBody # {}
    /\ ret.resp.Results = pages[1].results
    /\ Len(sent) = 2

\* C19: the delay is entered only from a parsed page that gave a record,
\* left the accumulator below maxResults and came with a non-empty token; it
\* starts at 3 time-units, runs down one unit at a time and is left only at 0
\* for the next request; the loop is entered from validation without delay,
\* and a call that returns from a page does so without entering the delay.
C19_Pacing ==
    [][ /\ (pc' = "pacing" /\ pc # "pacing") =>
               /\ pc = "inflight"
               /\ timer' = 3
               /\ LastPage'.results # << >>
               /\ results' = Flatten(pages')
               /\ Len(results') < c.maxResults
               /\ DOMAIN LastPage'.nextReqBody # {}
        /\ (pc = "pacing" /\ pc' = "pacing") => timer' \in {timer, timer - 1}
        /\ (pc = "pacing" /\ pc' # "pacing") => (timer = 0 /\ pc' = "loop")
        /\ (pc' = "loop" /\ pc # "loop") =>
               \/ pc = "init" /\ sent = << >>
               \/ pc = "pacing" /\ timer = 0 /\ sent # << >>
        /\ (pc = "inflight" /\ pc' = "returned") => timer' = timer
        /\ Len(sent') > Len(sent) => (pc = "loop" /\ timer = 0)
      ]_vars

\* C19 witness: the delay after the first page has run out and the second
\* request is about to be created.
C19_Witness ==
    /\ pc = "loop"
    /\ Len(sent) = 1
    /\ Len(pages) = 1
    /\ timer = 0

WirePairs(body) == {body[i] : i \in 1..Len(body)}

TokenPairs(v) == UNION {{<<k, v[k][j]>> : j \in 1..Len(v[k])} : k \in DOMAIN v}

WireKeys(body) == {body[i][1] : i \in 1..Len(body)}

\* C20: the body of every request after the first holds exactly the
\* key/value pairs of the continuation token of the page before it: none
\* added, none removed, none changed.
C20_ContinuationBodyIsToken ==
    \A k \in 2..Len(sent) :
        /\ k - 1 <= Len(pages)
        /\ WirePairs(sent[k]) = TokenPairs(pages[k - 1].nextReqBody)
        /\ Len(sent[k]) = Cardinality(TokenPairs(pages[k - 1].nextReqBody))

\* C20 witness: the first body carried q, b, kl and df; the token of the
\* first page carried only s, and so does the second body.
C20_Witness ==
    /\ Len(sent) = 2
    /\ WireKeys(sent[1]) = {"q", "b", "kl", "df"}
    /\ DOMAIN pages[1].nextReqBody = {"s"}
    /\ WireKeys(sent[2]) = {"s"}


(* What TextSearch returns for one call taken alone: the loop of lines     *)
(* 38-71 run over the answers to that call's own requests, from answer k.  *)
RECURSIVE OutcomeFrom(_, _, _, _, _)
OutcomeFrom(cl, acc, body, answers, k) ==
    IF k > Len(answers) THEN [pending |-> TRUE]
    ELSE LET out == answers[k].out
             nxt == nextBody(body, out.nextReqBody)
         IN  IF out.err # << >> THEN failure(out.err, acc)
             ELSE IF pageEmpty(out.results) THEN finish(acc)
             ELSE IF limitReached(acc \o out.results, cl.maxResults) \/ tokenEmpty(nxt)
             THEN finish(accumulate(acc, out.results, cl.maxResults))
             ELSE OutcomeFrom(cl, accumulate(acc, out.results, cl.maxResults), nxt, answers, k + 1)

Outcome(cl, in, answers) ==
    IF QueryRequired(in) THEN ErrorResponse(ErrQueryRequired)
    ELSE IF QueryTooLong(in) THEN ErrorResponse(ErrQueryTooLong)
    ELSE OutcomeFrom(cl, << >>, buildTextHTMLRequestBody(in, cl.region), answers, 1)

HiddenNamed(form) ==
    SelectSeq(form, LAMBDA s : s.type = "hidden" /\ s.name.exists)

FieldPairs(form) ==
    {<<HiddenNamed(form)[k].name.val,
       IF HiddenNamed(form)[k].value.exists THEN HiddenNamed(form)[k].value.val ELSE << >>>> :
        k \in 1..Len(HiddenNamed(form))}

\* C21: for a page with the "more results" navigation, the token the parser
\* returns holds exactly the name/value pairs of the hidden fields of the
\* page's last form: each of them, also one without a value attribute and
\* each of several with one name, and none from another form.
C21_TokenIsAllHiddenFields ==
    (unit.done /\ unit.arg.nav) =>
        TokenPairs(unit.out.nextReqBody) = FieldPairs(LastFormOf(unit.arg))


\* C22: for a page without the "more results" navigation the parser returns
\* the empty token, whatever forms and hidden fields the page holds, and
\* still returns the records of the page's entries.
C22_NoNavEmptyToken ==
    (unit.done /\ ~unit.arg.nav) =>
        /\ DOMAIN unit.out.nextReqBody = {}
        /\ unit.out.results = parseEntries(unit.arg.entries, {}, << >>)

\* C22 happens: a page without navigation whose last form holds the hidden
\* fields q and s, and two entries that became two records.
C22_Witness ==
    /\ unit.done
    /\ ~unit.arg.nav
    /\ unit.arg.forms = <<FormSearch, FormNext>>
    /\ FieldPairs(LastFormOf(unit.arg)) # {}
    /\ Len(unit.out.results) = 2
    /\ DOMAIN unit.out.nextReqBody = {}


\* C23: the first request body has exactly the keys q, b, kl and df, each
\* with one value: q the query text as given, b empty, kl empty for the
\* region "wt-wt" and the region code otherwise, df empty for the time range
\* "any" and the letter d, w, m or y for day, week, month or year.
C23_InitialBody ==
    unit.done =>
        LET body == unit.out
            t == unit.arg.t
            region == unit.arg.region
        IN  /\ DOMAIN body = {"q", "b", "kl", "df"}
            /\ body["q"] = <<t.Query>>
            /\ body["b"] = << << >> >>
            /\ body["kl"] = (IF region = <<"wt-wt">> THEN << << >> >> ELSE <<region>>)
            /\ (t.TimeRange = << >> => body["df"] = << << >> >>)
            /\ \A code \in {"d", "w", "m", "y"} :
                   t.TimeRange = <<code>> => body["df"] = << <<code>> >>

\* C23 happens: the query "golang" of the past week for the region us-en.
C23_Witness ==
    /\ unit.done
    /\ unit.arg.t = [Query |-> <<"golang">>, TimeRange |-> <<"w">>]
    /\ unit.arg.region = <<"us-en">>
    /\ unit.out["q"] = << <<"golang">> >>
    /\ unit.out["kl"] = << <<"us-en">> >>
    /\ unit.out["df"] = << <<"w">> >>

\* and the body for the region "wt-wt" with the time range "any"
C23_WitnessWorld ==
    /\ unit.done
    /\ unit.arg.region = <<"wt-wt">>
    /\ unit.arg.t.TimeRange = << >>
    /\ unit.out["kl"] = << << >> >>
    /\ unit.out["df"] = << << >> >>


\* C24: every record the parser returns comes from an entry of the page
\* that has a non-empty result link and a snippet whose text is not empty;
\* an entry without them is left out, and the parse does not fail.
C24_LinkAndSnippetNonEmpty ==
    unit.done =>
        \A k \in 1..Len(unit.out.results) :
            \E n \in 1..Len(unit.arg.entries) :
                LET s == unit.arg.entries[n]
                IN  /\ s.title.exists
                    /\ s.title.href.exists
                    /\ s.title.href.val # << >>
                    /\ s.title.href.val = unit.out.results[k].URL
                    /\ s.snippet.exists
                    /\ s.snippet.text # << >>


(* An entry with a title link, a link that is not empty, not a redirect    *)
(* and not an ad, and a snippet element.                                    *)
Eligible(s) ==
    /\ s.title.exists
    /\ s.title.href.exists
    /\ s.title.href.val # << >>
    /\ ~HasPrefix(s.title.href.val, <<"http://www.google.com/search?q=">>)
    /\ ~HasPrefix(s.title.href.val, <<"https://duckduckgo.com/y.js?ad_domain">>)
    /\ s.snippet.exists

\* C25: no two records parsed from one page have the same url; of the
\* entries of a page with one link the record is the one of the first such
\* entry that can be kept; and nothing is seen before the page's first
\* entry: every link of an entry that can be kept is the url of a record.
C25_PageDedup ==
    unit.done =>
        LET res == unit.out.results
            es == unit.arg.entries
        IN  /\ \A i, j \in 1..Len(res) : i # j => res[i].URL # res[j].URL
            /\ \A k \in 1..Len(res) :
                   \E n \in 1..Len(es) :
                       /\ Eligible(es[n])
                       /\ es[n].title.href.val = res[k].URL
                       /\ \A m \in 1..(n - 1) :
                              ~(Eligible(es[m]) /\ es[m].title.href.val = res[k].URL)
                       /\ res[k].Title = TrimSpace(es[n].title.text)
                       /\ res[k].Summary = TrimSpace(es[n].snippet.text)
            /\ \A n \in 1..Len(es) :
                   Eligible(es[n]) => \E k \in 1..Len(res) : res[k].URL = es[n].title.href.val

\* C25 happens: two entries with the link .../1 and different titles gave
\* one record, with the title of the first.
C25_Witness ==
    /\ unit.done
    /\ Len(unit.arg.entries) = 2
    /\ \A n \in 1..2 : Eligible(unit.arg.entries[n])
                       /\ unit.arg.entries[n].title.href.val = URL1
    /\ unit.arg.entries[1].title.text # unit.arg.entries[2].title.text
    /\ Len(unit.out.results) = 1
    /\ unit.out.results[1].Title = <<"T1">>


IsPrefix(s, t) == Len(s) <= Len(t) /\ s = SubSeq(t, 1, Len(s))

\* C26: the accumulator, and the result list of every outcome, is a prefix
\* of the records of the call's pages put one after the other in the order
\* of the requests, each page's records in their order in the page: the cut
\* at maxResults drops records from the end only.
C26_DiscoveryOrder ==
    /\ IsPrefix(results, Flatten(pages))
    /\ Returned => IsPrefix(ret.resp.Results, Flatten(pages))

\* C26 happens: one record from the first page, two from the second, and
\* the two returned are the first page's record and then the first record
\* of the second page.
C26_Witness ==
    /\ Returned
    /\ Len(pages) = 2
    /\ Len(pages[1].results) = 1
    /\ Len(pages[2].results) = 2
    /\ pages[2].results[1] # pages[2].results[2]
    /\ pages[1].results[1] # pages[2].results[2]
    /\ ret.resp.Results = <<pages[1].results[1], pages[2].results[1]>>


\* C27: a session made by NewSearch has maxResults > 0 and a region that is
\* not empty: for a nil config, or a maxResults of zero or less, maxResults
\* is 10; for a nil config or an empty region the region is "wt-wt"; a
\* positive maxResults and a non-empty region are kept as given.
C27_SessionDefaults ==
    unit.done =>
        LET cfg == unit.arg
            s == unit.out
        IN  /\ s.maxResults > 0
            /\ s.region # << >>
            /\ s.maxResults = (IF cfg.isNil \/ cfg.MaxResults <= 0 THEN 10 ELSE cfg.MaxResults)
            /\ s.region = (IF cfg.isNil \/ cfg.Region = << >> THEN <<"wt-wt">> ELSE cfg.Region)

\* C27 happens: a config with a negative maxResults and no region got the
\* defaults.
C27_Witness ==
    /\ unit.done
    /\ ~unit.arg.isNil
    /\ unit.arg.MaxResults < 0
    /\ unit.arg.Region = << >>
    /\ unit.out = [maxResults |-> 10, region |-> <<"wt-wt">>]

\* and a config with maxResults 11 and the region jp-jp was kept as given
C27_WitnessKept ==
    /\ unit.done
    /\ unit.arg.MaxResults = 11
    /\ unit.arg.Region = <<"jp-jp">>
    /\ unit.out = [maxResults |-> 11, region |-> <<"jp-jp">>]

\* and a nil config got the defaults
C27_WitnessNil ==
    /\ unit.done
    /\ unit.arg.isNil
    /\ unit.out = [maxResults |-> 10, region |-> <<"wt-wt">>]


\* C28: every call on a client with maxResults > 0 returns, with an error
\* outcome or a success outcome, whatever the upstream answers, also when
\* every page offers a continuation token; it sends at most maxResults
\* requests, since every page after which the loop goes on made the
\* accumulator longer by at least one record.
C28_Terminates ==
    /\ <>(Returned /\ (ErrorOutcome \/ SuccessOutcome))
    /\ [](c.maxResults > 0 /\ Len(sent) <= c.maxResults)
    /\ [][(pc = "inflight" /\ pc' = "pacing") =>
             /\ Len(results') > Len(results)
             /\ Len(results') < c.maxResults]_vars

\* C28 happens: with maxResults 2 the second page still offered a token,
\* and the call returned after its second request.
C28_Witness ==
    /\ Returned
    /\ c.maxResults = 2
    /\ Len(sent) = 2
    /\ Len(pages) = 2
    /\ DOMAIN pages[2].nextReqBody # {}
    /\ SuccessOutcome


\* C29: a body is parsed only when the status is 200.  After an answer with
\* any other status, 202 and the other 2xx codes too, the call has returned
\* an error outcome that names the status and holds no result, and the body
\* of that answer gave no page.
C29_OnlyStatus200Parsed ==
    (lastResp.kind = "status" /\ lastResp.status # 200) =>
        /\ Returned
        /\ ErrorOutcome
        /\ Len(ret.resp.Results) = 0
        /\ Contains(ret.resp.ErrorMessage, <<"status ", ToString(lastResp.status)>>)
        /\ Len(pages) = Len(sent) - 1

\* C29 happens: the second request was answered with 202 and a body with
\* navigation and forms; the record of the first page is not returned.
C29_Witness ==
    /\ Returned
    /\ lastResp.kind = "status"
    /\ lastResp.status = 202
    /\ lastResp.seen.nav
    /\ lastResp.seen.lastForm # << >>
    /\ Len(sent) = 2
    /\ Len(pages) = 1
    /\ pages[1].results # << >>
    /\ ret.resp.Results = << >>
    /\ Contains(ret.resp.ErrorMessage, <<"status ", "202">>)


(* no input of the form is a hidden field with a name and a value *)
NoPair(form) ==
    \A k \in 1..Len(form) :
        ~(form[k].type = "hidden" /\ form[k].name.exists /\ form[k].value.exists)

\* C30: a page that has the "more results" navigation, but whose last form
\* gives no hidden name/value pair, comes with an empty token; it is the
\* last page of the call, which has returned a success outcome with the
\* records accumulated up to maxResults and sent nothing after it; and no
\* request of any call has an empty body.
C30_NavWithoutPairEnds ==
    /\ \A k \in 1..Len(pages) :
           (pages[k].seen.nav /\ NoPair(pages[k].seen.lastForm)) =>
               /\ DOMAIN pages[k].nextReqBody = {}
               /\ k = Len(pages)
               /\ Len(sent) = k
               /\ Returned
               /\ SuccessOutcome
               /\ ret.resp.Results = Take(Flatten(pages), c.maxResults)
    /\ \A k \in 1..Len(sent) : sent[k] # << >>

\* C30 happens: with maxResults 2, the first page had one record, the
\* navigation, and a last form whose hidden fields lack a name or a value;
\* the call returned that record after its only request.
C30_Witness ==
    /\ Returned
    /\ c.maxResults = 2
    /\ Len(pages) = 1
    /\ Len(pages[1].results) = 1
    /\ pages[1].seen.nav
    /\ pages[1].seen.lastForm = FormNoValue
    /\ DOMAIN pages[1].nextReqBody = {}
    /\ Len(sent) = 1
    /\ ret.resp.Results = pages[1].results

====
